---- MODULE Spec2Model ----
(***************************************************************************)
(* Model of purls/main.py: the command dispatcher `run` (registry snapshot, *)
(* algorithm validation, environment construction, instantiation, train /   *)
(* visualize) and its caller `main` (missing subcommand, KeyboardInterrupt). *)
(* The external collaborators (gym, loguru, the algorithm classes) are      *)
(* modelled by the outcomes the dispatcher can observe: a call returns or   *)
(* raises an exception of some class carrying some message.                 *)
(***************************************************************************)
EXTENDS Integers, Sequences, FiniteSets, TLC

VARIABLES
    pc,             \* position of the single thread of control
    subclasses,     \* ReinforcementLearningAlgorithm.subclasses (list of classes)
    catalog,        \* gym.envs.registry: identifiers in insertion order
    caller,         \* "main" when run was entered from main(), "direct" otherwise
    args,           \* the argparse namespace handed to run
    action,         \* first parameter of run
    algorithms,     \* run's local dict, as an insertion-ordered list of <<key, value>>
    catalogAtEntry, \* gym's catalog as it was when run was entered (observation only)
    log,            \* records emitted through loguru, oldest first
    trace,          \* stages and handlers of run executed so far
    makeCalls,      \* number of gym.make calls
    instances,      \* number of algorithm instances constructed
    trainCalls,     \* number of algo.train() calls
    visualizeCalls, \* number of algo.visualize() calls
    raisedIn,       \* <<stage, exception>> of the exception raised inside run, if any
    ret,            \* value returned by run (-1: run has not returned)
    exc,            \* exception propagating out of run (NoExc: none)
    exit            \* value returned by main (-1: main has not returned)

vars == <<pc, subclasses, catalog, caller, args, action, algorithms, catalogAtEntry,
          log, trace, makeCalls, instances, trainCalls, visualizeCalls, raisedIn,
          ret, exc, exit>>

----------------------------------------------------------------------------
(* Bounds *)

MaxSubclasses == 3
MaxCatalog == 3

----------------------------------------------------------------------------
(* Universe of inputs *)

\* algorithm classes: __name__ and an identity distinguishing two classes of one name
Classes == { [name |-> "DQN", impl |-> 1], [name |-> "DQN", impl |-> 2],
             [name |-> "PPO", impl |-> 1] }

AlgorithmNames == {"DQN", "PPO", "SAC"}

EnvironmentIds == {"MiniGrid-Empty-5x5-v0", "MiniGrid-FourRooms-v0", "CartPole-v1", "MiniGri"}

EnvironmentNames == {"MiniGrid-Empty-5x5-v0", "MiniGrid-Bogus-v0", "CartPole-v1"}

InitialCatalogs == { <<>>,
                     <<"CartPole-v1">>,
                     <<"MiniGrid-Empty-5x5-v0", "CartPole-v1">>,
                     <<"CartPole-v1", "MiniGrid-FourRooms-v0", "MiniGrid-Empty-5x5-v0">> }

Actions == {"train", "visualize", "evaluate"}

Messages == {"model not found", ""}

ExceptionClasses == {"AlgorithmError", "GymError", "RuntimeError", "KeyboardInterrupt", "SystemExit"}

NoExc == [cls |-> "none", msg |-> ""]

Exceptions == [cls : ExceptionClasses, msg : Messages]

NoArgs == [hasAction |-> FALSE, subcmd_name |-> "None", algorithm |-> "", environment |-> ""]

----------------------------------------------------------------------------
(* Python and library semantics used by main.py *)

\* purls.algorithms.AlgorithmError is a domain error class derived from Exception
AlgorithmErrorIsException == TRUE

\* variant: the generic clause is `except BaseException`
IsExceptionAny(e) == TRUE

\* isinstance(e, Exception): KeyboardInterrupt and SystemExit derive from BaseException only
IsException(e) ==
    \/ e.cls \in {"GymError", "RuntimeError"}
    \/ e.cls = "AlgorithmError" /\ AlgorithmErrorIsException

IsAlgorithmError(e) == e.cls = "AlgorithmError"

IsGymError(e) == e.cls = "GymError"

IsKeyboardInterrupt(e) == e.cls = "KeyboardInterrupt"

\* str(e) of an exception constructed with one message argument
Str(e) == e.msg

\* sep.join(parts)
RECURSIVE Join(_, _)
Join(parts, sep) ==
    IF Len(parts) = 0 THEN ""
    ELSE IF Len(parts) = 1 THEN parts[1]
    ELSE parts[1] \o sep \o Join(Tail(parts), sep)

\* s.startswith(p)
StartsWith(s, p) == Len(s) >= Len(p) /\ SubSeq(s, 1, Len(p)) = p

EnvPrefix == "MiniGrid"

Record(sev, text, tb) == [sev |-> sev, text |-> text, traceback |-> tb]

debug(text) == Record("DEBUG", text, FALSE)

info(text) == Record("INFO", text, FALSE)

error(text) == Record("ERROR", text, FALSE)

\* record written by loguru's catch(): ERROR severity with the exception's traceback attached
CatchRecord == Record("ERROR", "An error has been caught in function 'run'", TRUE)

\* variant: the operation is not wrapped in logger.catch
CatchLogsNothing(e) == <<>>

\* logger.catch(reraise=True): exceptions that are instances of Exception are logged, then re-raised
CatchLogs(e) == IF IsException(e) THEN <<CatchRecord>> ELSE <<>>

TrainUsage == "usage: purls train [-h] --algorithm algo --environment env\n"

VisualizeUsage == "usage: purls visualize [-h] --algorithm algo --environment env\n"

----------------------------------------------------------------------------
(* run: the registry snapshot *)

Keys(d) == [i \in 1..Len(d) |-> d[i][1]]

KeySet(d) == { d[i][1] : i \in 1..Len(d) }

Lookup(d, k) == d[CHOOSE i \in 1..Len(d) : d[i][1] = k][2]

\* variant: a present key keeps its old value (setdefault)
DictUpdateKeepFirst(d, k, v) ==
    IF k \in { d[i][1] : i \in 1..Len(d) } THEN d ELSE Append(d, <<k, v>>)

\* dict.update({k: v}): a present key keeps its position and takes the new value
DictUpdate(d, k, v) ==
    IF k \in KeySet(d)
    THEN [i \in 1..Len(d) |-> IF d[i][1] = k THEN <<k, v>> ELSE d[i]]
    ELSE Append(d, <<k, v>>)

RECURSIVE Snapshot(_, _)
Snapshot(d, classes) ==
    IF classes = <<>> THEN d
    ELSE Snapshot(DictUpdate(d, Head(classes).name, Head(classes)), Tail(classes))

SnapshotDebug(classes) ==
    <<debug("algorithms detected:")>>
    \o [i \in 1..Len(classes) |-> debug(classes[i].name)]
    \o <<debug("")>>

----------------------------------------------------------------------------
(* run: messages *)

\* variant: names joined without the space
AlgorithmMessageCommaOnly(d) == "choose a valid algorithm: " \o Join(Keys(d), ",")

AlgorithmMessage(d) == "choose a valid algorithm: " \o Join(Keys(d), ", ")

IdFilter(id) == StartsWith(id, EnvPrefix)

ValidEnvironments(cat) == SelectSeq(cat, IdFilter)

EnvironmentMessage(cat) == "choose a valid gym enviroment:\n" \o Join(ValidEnvironments(cat), "\n")

\* variant: train is the else-branch of visualize
TrainSelectedElse(a) == a # "visualize"

TrainSelected(a) == a = "train"

\* variant: the second condition repeats the first
VisualizeSelectedCopied(a) == a = "train"

VisualizeSelected(a) == a = "visualize"

----------------------------------------------------------------------------
Init ==
    /\ pc = "load"
    /\ subclasses = <<>>
    /\ catalog \in InitialCatalogs
    /\ caller = "none"
    /\ args = NoArgs
    /\ action = "none"
    /\ algorithms = <<>>
    /\ catalogAtEntry = <<>>
    /\ log = <<>>
    /\ trace = <<>>
    /\ makeCalls = 0
    /\ instances = 0
    /\ trainCalls = 0
    /\ visualizeCalls = 0
    /\ raisedIn = <<"none", NoExc>>
    /\ ret = -1
    /\ exc = NoExc
    /\ exit = -1

----------------------------------------------------------------------------
(* Module loading: each loaded algorithm class appends itself to subclasses *)

Register(c) ==
    /\ pc = "load"
    /\ Len(subclasses) < MaxSubclasses
    /\ subclasses' = Append(subclasses, c)
    /\ UNCHANGED <<pc, catalog, caller, args, action, algorithms, catalogAtEntry, log, trace,
                   makeCalls, instances, trainCalls, visualizeCalls, raisedIn, ret, exc, exit>>

----------------------------------------------------------------------------
(* main *)

\* variant: the missing-subcommand branch does not return and run is entered
MainNoSubcommandFallsThrough ==
    /\ pc = "load"
    /\ caller' = "main"
    /\ args' = NoArgs
    /\ log' = log \o << error("You need to select a subcommand {train, visualize}"),
                        info("\n" \o TrainUsage \o VisualizeUsage) >>
    /\ catalogAtEntry' = catalog
    /\ pc' = "snapshot"
    /\ UNCHANGED <<subclasses, catalog, action, algorithms, trace, makeCalls, exit,
                   instances, trainCalls, visualizeCalls, raisedIn, ret, exc>>

\* main without a subcommand: the namespace has no attribute `action`
MainNoSubcommand ==
    /\ pc = "load"
    /\ caller' = "main"
    /\ args' = NoArgs
    /\ log' = log \o << error("You need to select a subcommand {train, visualize}"),
                        info("\n" \o TrainUsage \o VisualizeUsage) >>
    /\ exit' = 1
    /\ pc' = "exit"
    /\ UNCHANGED <<subclasses, catalog, action, algorithms, catalogAtEntry, trace, makeCalls,
                   instances, trainCalls, visualizeCalls, raisedIn, ret, exc>>

\* main with subcommand sub: set_defaults(action=sub), then run(args.action, args)
MainSubcommand(sub, alg, env) ==
    /\ pc = "load"
    /\ caller' = "main"
    /\ args' = [hasAction |-> TRUE, subcmd_name |-> sub, algorithm |-> alg, environment |-> env]
    /\ action' = sub
    /\ catalogAtEntry' = catalog
    /\ pc' = "snapshot"
    /\ UNCHANGED <<subclasses, catalog, algorithms, log, trace, makeCalls, instances,
                   trainCalls, visualizeCalls, raisedIn, ret, exc, exit>>

\* run(a, args) called by some other caller than main, with any action value
DirectRun(a, alg, env) ==
    /\ pc = "load"
    /\ caller' = "direct"
    /\ args' = [hasAction |-> TRUE, subcmd_name |-> a, algorithm |-> alg, environment |-> env]
    /\ action' = a
    /\ catalogAtEntry' = catalog
    /\ pc' = "snapshot"
    /\ UNCHANGED <<subclasses, catalog, algorithms, log, trace, makeCalls, instances,
                   trainCalls, visualizeCalls, raisedIn, ret, exc, exit>>

\* run returned to main: debug line, main returns run's result
MainReturn ==
    /\ pc = "returned"
    /\ caller = "main"
    /\ log' = Append(log, debug(args.subcmd_name \o " returned " \o ToString(ret)))
    /\ exit' = ret
    /\ pc' = "exit"
    /\ UNCHANGED <<subclasses, catalog, caller, args, action, algorithms, catalogAtEntry, trace,
                   makeCalls, instances, trainCalls, visualizeCalls, raisedIn, ret, exc>>

\* an exception left run: main handles KeyboardInterrupt only, anything else leaves main too
MainExcept ==
    /\ pc = "raised"
    /\ caller = "main"
    /\ IF IsKeyboardInterrupt(exc)
       THEN /\ log' = Append(log, error("Interrupted by user"))
            /\ trace' = Append(trace, "main except KeyboardInterrupt")
            /\ exit' = 1
            /\ exc' = NoExc
            /\ pc' = "exit"
       ELSE /\ pc' = "uncaught"
            /\ UNCHANGED <<log, trace, exit, exc>>
    /\ UNCHANGED <<subclasses, catalog, caller, args, action, algorithms, catalogAtEntry,
                   makeCalls, instances, trainCalls, visualizeCalls, raisedIn, ret>>

----------------------------------------------------------------------------
(* run *)

\* variant: the generic clause logs and falls through to `return 0`
HandleFallsThrough(e) ==
    IF e.cls = "AlgorithmError"
    THEN [log |-> <<error(e.msg)>>, ret |-> 1, exc |-> NoExc, pc |-> "returned",
          handler |-> <<"except AlgorithmError">>]
    ELSE IF e.cls \in {"GymError", "RuntimeError"}
    THEN [log |-> <<error(e.msg)>>, ret |-> 0, exc |-> NoExc, pc |-> "returned",
          handler |-> <<"except Exception">>]
    ELSE [log |-> <<>>, ret |-> -1, exc |-> e, pc |-> "raised", handler |-> <<>>]

\* the except clauses of run applied to exception e: what is logged, returned or re-raised
Handle(e) ==
    IF IsAlgorithmError(e)
    THEN [log |-> <<error(e.msg)>>, ret |-> 1, exc |-> NoExc, pc |-> "returned",
          handler |-> <<"except AlgorithmError">>]
    ELSE IF IsException(e)
    THEN [log |-> <<error(Str(e))>>, ret |-> 1, exc |-> NoExc, pc |-> "returned",
          handler |-> <<"except Exception">>]
    ELSE [log |-> <<>>, ret |-> -1, exc |-> e, pc |-> "raised", handler |-> <<>>]

\* stage raised e; pre is what was logged before the except clauses were reached
Raise(stage, e, pre) ==
    /\ raisedIn' = <<stage, e>>
    /\ log' = log \o pre \o Handle(e).log
    /\ trace' = trace \o <<stage>> \o Handle(e).handler
    /\ ret' = Handle(e).ret
    /\ exc' = Handle(e).exc
    /\ pc' = Handle(e).pc

\* algorithms = {}; for algorithm in subclasses: algorithms.update({name: algorithm})
RunSnapshot ==
    /\ pc = "snapshot"
    /\ algorithms' = Snapshot(<<>>, subclasses)
    /\ log' = log \o SnapshotDebug(subclasses)
    /\ trace' = Append(trace, "snapshot")
    /\ pc' = "validate"
    /\ UNCHANGED <<subclasses, catalog, caller, args, action, catalogAtEntry, makeCalls,
                   instances, trainCalls, visualizeCalls, raisedIn, ret, exc, exit>>

\* variant: the unknown-algorithm branch reports but does not return
RunValidateNoReturn ==
    /\ pc = "validate"
    /\ trace' = Append(trace, "validate")
    /\ IF args.algorithm \notin KeySet(algorithms)
       THEN log' = Append(log, error(AlgorithmMessage(algorithms)))
       ELSE UNCHANGED log
    /\ pc' = "make"
    /\ UNCHANGED <<subclasses, catalog, caller, args, action, algorithms, catalogAtEntry, ret,
                   makeCalls, instances, trainCalls, visualizeCalls, raisedIn, exc, exit>>

\* if args.algorithm not in algorithms: report the known names, return 1
RunValidate ==
    /\ pc = "validate"
    /\ trace' = Append(trace, "validate")
    /\ IF args.algorithm \notin KeySet(algorithms)
       THEN /\ log' = Append(log, error(AlgorithmMessage(algorithms)))
            /\ ret' = 1
            /\ pc' = "returned"
       ELSE /\ pc' = "make"
            /\ UNCHANGED <<log, ret>>
    /\ UNCHANGED <<subclasses, catalog, caller, args, action, algorithms, catalogAtEntry,
                   makeCalls, instances, trainCalls, visualizeCalls, raisedIn, exc, exit>>

Range(s) == { s[i] : i \in 1..Len(s) }

\* what a gym.make call may leave in the catalog: unchanged, or one more registered id
CatalogAfterMake(cat) ==
    {cat} \cup { Append(cat, id) : id \in { x \in EnvironmentIds \ Range(cat) : Len(cat) < MaxCatalog } }

\* env = gym.make(args.environment) returns
RunMakeOk ==
    /\ pc = "make"
    /\ catalog' \in CatalogAfterMake(catalog)
    /\ args.environment \in Range(catalog')
    /\ makeCalls' = makeCalls + 1
    /\ trace' = Append(trace, "make")
    /\ pc' = "instantiate"
    /\ UNCHANGED <<subclasses, caller, args, action, algorithms, catalogAtEntry, log,
                   instances, trainCalls, visualizeCalls, raisedIn, ret, exc, exit>>

\* gym.make raises e; gym.error.Error goes to the inner except clause
RunMakeRaise(e) ==
    /\ pc = "make"
    /\ catalog' \in CatalogAfterMake(catalog)
    /\ makeCalls' = makeCalls + 1
    /\ IF IsGymError(e)
       THEN /\ raisedIn' = <<"make", e>>
            /\ trace' = Append(trace, "make")
            /\ pc' = "list_envs"
            /\ UNCHANGED <<log, ret, exc>>
       ELSE Raise("make", e, <<>>)
    /\ UNCHANGED <<subclasses, caller, args, action, algorithms, catalogAtEntry,
                   instances, trainCalls, visualizeCalls, exit>>

\* variant: the listing is answered from the catalog as it was on entry to run
CatalogForListingStale(atEntry, now) == atEntry

\* the catalog a failed construction is answered from
CatalogForListing(atEntry, now) == now

\* except gym.error.Error: list the catalog's MiniGrid ids, return 1
RunListEnvs ==
    /\ pc = "list_envs"
    /\ log' = Append(log, error(EnvironmentMessage(CatalogForListing(catalogAtEntry, catalog))))
    /\ trace' = Append(trace, "list_envs")
    /\ ret' = 1
    /\ pc' = "returned"
    /\ UNCHANGED <<subclasses, catalog, caller, args, action, algorithms, catalogAtEntry,
                   makeCalls, instances, trainCalls, visualizeCalls, raisedIn, exc, exit>>

\* algo = algorithms[args.algorithm](env=env, args=args) returns
RunInstantiateOk ==
    /\ pc = "instantiate"
    /\ instances' = instances + 1
    /\ trace' = Append(trace, "instantiate")
    /\ pc' = "train"
    /\ UNCHANGED <<subclasses, catalog, caller, args, action, algorithms, catalogAtEntry, log,
                   makeCalls, trainCalls, visualizeCalls, raisedIn, ret, exc, exit>>

\* the constructor raises e: no instance
RunInstantiateRaise(e) ==
    /\ pc = "instantiate"
    /\ Raise("instantiate", e, <<>>)
    /\ UNCHANGED <<subclasses, catalog, caller, args, action, algorithms, catalogAtEntry,
                   makeCalls, instances, trainCalls, visualizeCalls, exit>>

\* if action == "train": algo.train()   -- returns, or is skipped
RunTrainOk ==
    /\ pc = "train"
    /\ IF TrainSelected(action)
       THEN /\ trainCalls' = trainCalls + 1
            /\ trace' = Append(trace, "train")
       ELSE UNCHANGED <<trainCalls, trace>>
    /\ pc' = "visualize"
    /\ UNCHANGED <<subclasses, catalog, caller, args, action, algorithms, catalogAtEntry, log,
                   makeCalls, instances, visualizeCalls, raisedIn, ret, exc, exit>>

\* algo.train() raises e inside logger.catch(reraise=True)
RunTrainRaise(e) ==
    /\ pc = "train"
    /\ TrainSelected(action)
    /\ trainCalls' = trainCalls + 1
    /\ Raise("train", e, CatchLogs(e))
    /\ UNCHANGED <<subclasses, catalog, caller, args, action, algorithms, catalogAtEntry,
                   makeCalls, instances, visualizeCalls, exit>>

\* if action == "visualize": algo.visualize()   -- returns, or is skipped; then return 0
RunVisualizeOk ==
    /\ pc = "visualize"
    /\ IF VisualizeSelected(action)
       THEN /\ visualizeCalls' = visualizeCalls + 1
            /\ trace' = Append(trace, "visualize")
       ELSE UNCHANGED <<visualizeCalls, trace>>
    /\ ret' = 0
    /\ pc' = "returned"
    /\ UNCHANGED <<subclasses, catalog, caller, args, action, algorithms, catalogAtEntry, log,
                   makeCalls, instances, trainCalls, raisedIn, exc, exit>>

\* algo.visualize() raises e inside logger.catch(reraise=True)
RunVisualizeRaise(e) ==
    /\ pc = "visualize"
    /\ VisualizeSelected(action)
    /\ visualizeCalls' = visualizeCalls + 1
    /\ Raise("visualize", e, CatchLogs(e))
    /\ UNCHANGED <<subclasses, catalog, caller, args, action, algorithms, catalogAtEntry,
                   makeCalls, instances, trainCalls, exit>>

----------------------------------------------------------------------------
Next ==
    \/ \E c \in Classes : Register(c)
    \/ MainNoSubcommand
    \/ \E sub \in {"train", "visualize"}, alg \in AlgorithmNames, env \in EnvironmentNames :
          MainSubcommand(sub, alg, env)
    \/ \E a \in Actions, alg \in AlgorithmNames, env \in EnvironmentNames : DirectRun(a, alg, env)
    \/ RunSnapshot
    \/ RunValidate
    \/ RunMakeOk
    \/ \E e \in Exceptions : RunMakeRaise(e)
    \/ RunListEnvs
    \/ RunInstantiateOk
    \/ \E e \in Exceptions : RunInstantiateRaise(e)
    \/ RunTrainOk
    \/ \E e \in Exceptions : RunTrainRaise(e)
    \/ RunVisualizeOk
    \/ \E e \in Exceptions : RunVisualizeRaise(e)
    \/ MainReturn
    \/ MainExcept

Spec == Init /\ [][Next]_vars

----------------------------------------------------------------------------
(* Observations used by the properties *)

IsError(r) == r.sev = "ERROR"

ErrorChannel == SelectSeq(log, IsError)

IsInfo(r) == r.sev = "INFO"

InfoChannel == SelectSeq(log, IsInfo)

Finished == pc \in {"returned", "raised", "exit", "uncaught"}

NameSeq == [i \in 1..Len(subclasses) |-> subclasses[i].name]

RegisteredNames == Range(NameSeq)

\* the distinct elements of s in order of first occurrence
RECURSIVE FirstOccurrences(_)
FirstOccurrences(s) ==
    IF s = <<>> THEN <<>>
    ELSE LET front == FirstOccurrences(SubSeq(s, 1, Len(s) - 1))
             last == s[Len(s)]
         IN IF last \in Range(front) THEN front ELSE Append(front, last)

Occurrences(s, x) == Cardinality({ i \in 1..Len(s) : s[i] = x })

Min(S) == CHOOSE x \in S : \A y \in S : x <= y

\* the pieces of text between occurrences of sep
RECURSIVE Split(_, _)
Split(text, sep) ==
    LET n == Len(sep)
        hits == { i \in 1..(Len(text) - n + 1) : SubSeq(text, i, i + n - 1) = sep }
    IN IF hits = {} THEN <<text>>
       ELSE <<SubSeq(text, 1, Min(hits) - 1)>>
            \o Split(SubSeq(text, Min(hits) + n, Len(text)), sep)

Contains(text, part) ==
    \E i \in 1..(Len(text) - Len(part) + 1) : SubSeq(text, i, i + Len(part) - 1) = part

AfterHeader(text, header) == SubSeq(text, Len(header) + 1, Len(text))

\* the items a message lists after its header
Listed(text, header, sep) ==
    IF AfterHeader(text, header) = "" THEN <<>> ELSE Split(AfterHeader(text, header), sep)

----------------------------------------------------------------------------
(* Properties *)

AlgorithmHeader == "choose a valid algorithm: "

EnvironmentHeader == "choose a valid gym enviroment:\n"

UnknownAlgorithmReturned == "validate" \in Range(trace) /\ args.algorithm \notin RegisteredNames

\* C1: a requested algorithm name that is not registered makes run return 1 with exactly
\* one error message, which lists every registered name exactly once, separated by ", ",
\* in order of first registration, and the requested name is not among them
\* (registry DQN, PPO and request SAC: the message reads "... DQN, PPO").
C1_UnknownAlgorithmListsRegistry ==
    UnknownAlgorithmReturned =>
        /\ ret = 1
        /\ Len(ErrorChannel) = 1
        /\ StartsWith(ErrorChannel[1].text, AlgorithmHeader)
        /\ LET listed == Listed(ErrorChannel[1].text, AlgorithmHeader, ", ")
           IN /\ listed = FirstOccurrences(NameSeq)
              /\ \A n \in RegisteredNames : Occurrences(listed, n) = 1
              /\ args.algorithm \notin Range(listed)
        /\ (FirstOccurrences(NameSeq) = <<"DQN", "PPO">> /\ args.algorithm = "SAC") =>
               /\ Contains(ErrorChannel[1].text, "DQN, PPO")
               /\ ~Contains(ErrorChannel[1].text, "SAC")

C1_Witness ==
    /\ UnknownAlgorithmReturned
    /\ NameSeq = <<"DQN", "PPO", "DQN">>
    /\ args.algorithm = "SAC"
    /\ ret = 1

HasMiniGridPrefix(id) == Len(id) >= 8 /\ SubSeq(id, 1, 8) = "MiniGrid"

\* C2: when gym.make fails with gym's own error for a registered algorithm, run returns 1
\* and its one error message lists, newline-separated, exactly the identifiers of the
\* catalog as it is after the failed attempt that start with "MiniGrid"; an identifier
\* without the prefix is never listed.
C2_UnknownEnvironmentListsCatalog ==
    "list_envs" \in Range(trace) =>
        /\ args.algorithm \in RegisteredNames
        /\ ret = 1
        /\ Len(ErrorChannel) = 1
        /\ StartsWith(ErrorChannel[1].text, EnvironmentHeader)
        /\ LET listed == Listed(ErrorChannel[1].text, EnvironmentHeader, "\n")
           IN /\ listed = SelectSeq(catalog, HasMiniGridPrefix)
              /\ \A id \in Range(listed) : HasMiniGridPrefix(id)
              /\ \A id \in Range(catalog) : HasMiniGridPrefix(id) => id \in Range(listed)

C2_Witness ==
    /\ "list_envs" \in Range(trace)
    /\ catalogAtEntry = <<"MiniGrid-Empty-5x5-v0", "CartPole-v1">>
    /\ catalog = <<"MiniGrid-Empty-5x5-v0", "CartPole-v1", "MiniGrid-FourRooms-v0">>
    /\ args.environment = "MiniGrid-Bogus-v0"
    /\ ret = 1

\* the algorithm is registered, the environment was constructed and the constructor returned
InstantiatedAndFinished ==
    /\ Finished
    /\ args.hasAction
    /\ args.algorithm \in RegisteredNames
    /\ raisedIn[1] \notin {"make", "instantiate"}

\* C3: with a registered algorithm, a constructed environment and a constructor that
\* returns, one call of run with action train makes exactly one instance, calls train()
\* exactly once and visualize() never; with action visualize it makes exactly one
\* instance, calls visualize() exactly once and train() never.
C3_ExactlyOneOperation ==
    InstantiatedAndFinished =>
        /\ instances = 1
        /\ action = "train" => (trainCalls = 1 /\ visualizeCalls = 0)
        /\ action = "visualize" => (visualizeCalls = 1 /\ trainCalls = 0)

C3_Witness ==
    /\ InstantiatedAndFinished
    /\ action = "train"
    /\ trainCalls = 1
    /\ ret = 0

TrainRaisedAlgorithmError == raisedIn[1] = "train" /\ IsAlgorithmError(raisedIn[2])

\* C4 as stated: when train() raises AlgorithmError with message m, run returns 1 and the
\* error channel of that run holds m and nothing else, in particular no traceback.
C4_Original_OnlyMessageOnErrorChannel ==
    TrainRaisedAlgorithmError =>
        /\ ret = 1
        /\ ErrorChannel = <<error(raisedIn[2].msg)>>

\* C4 amended: when train() raises AlgorithmError with message m, run returns 1 and m is,
\* verbatim and without traceback, the last record of the error channel; it is preceded
\* by exactly one error record, written by logger.catch, that carries the traceback.
C4_MessageAfterCatchRecord ==
    TrainRaisedAlgorithmError =>
        /\ ret = 1
        /\ Len(ErrorChannel) = 2
        /\ ErrorChannel[2] = error(raisedIn[2].msg)
        /\ ~ErrorChannel[2].traceback
        /\ ErrorChannel[1].traceback

C4_Witness ==
    /\ raisedIn = <<"train", [cls |-> "AlgorithmError", msg |-> "model not found"]>>
    /\ pc = "returned"
    /\ ret = 1

InterruptedInOperation ==
    /\ raisedIn[1] \in {"train", "visualize"}
    /\ IsKeyboardInterrupt(raisedIn[2])
    /\ caller = "main"

\* C5: a KeyboardInterrupt during train() or visualize() passes through run untouched
\* (run returns nothing, neither of its except clauses runs, nothing is written to the
\* error channel) and main then returns 1 with the single error message
\* "Interrupted by user".
C5_InterruptHandledOnceInMain ==
    InterruptedInOperation =>
        /\ ret = -1
        /\ "except AlgorithmError" \notin Range(trace)
        /\ "except Exception" \notin Range(trace)
        /\ pc \in {"raised", "exit"}
        /\ pc = "raised" => ErrorChannel = <<>>
        /\ pc = "exit" => (exit = 1 /\ ErrorChannel = <<error("Interrupted by user")>>)

C5_Witness ==
    /\ InterruptedInOperation
    /\ raisedIn[1] = "visualize"
    /\ pc = "exit"
    /\ exit = 1

\* an exception other than AlgorithmError and KeyboardInterrupt was raised by a stage,
\* gym's own error from gym.make excepted
OtherExceptionRaised ==
    /\ raisedIn[1] \in {"make", "instantiate", "train", "visualize"}
    /\ ~IsAlgorithmError(raisedIn[2])
    /\ ~IsKeyboardInterrupt(raisedIn[2])
    /\ ~(raisedIn[1] = "make" /\ IsGymError(raisedIn[2]))

ZeroOnlyWithoutRaise == ret = 0 => raisedIn[1] = "none"

\* C6 as stated: every exception that is neither AlgorithmError nor KeyboardInterrupt,
\* raised by gym.make (gym's own error excepted), the constructor, train() or visualize(),
\* is caught in run, which emits its string form as an error and returns 1; it never
\* leaves run, and run returns 0 only when no stage raised.
C6_Original_EveryOtherExceptionCaught ==
    /\ OtherExceptionRaised =>
           /\ ret = 1
           /\ exc = NoExc
           /\ ErrorChannel[Len(ErrorChannel)] = error(Str(raisedIn[2]))
    /\ ZeroOnlyWithoutRaise

\* C6 amended: every exception that is an instance of Exception and not AlgorithmError,
\* raised by gym.make (gym's own error excepted), the constructor, train() or visualize(),
\* is caught in run, which emits its string form as an error and returns 1; it never
\* leaves run, and run returns 0 only when no stage raised.  Exceptions outside the
\* Exception hierarchy (SystemExit as well as KeyboardInterrupt) leave run.
C6_ExceptionSubclassesCaught ==
    /\ (OtherExceptionRaised /\ IsException(raisedIn[2])) =>
           /\ ret = 1
           /\ exc = NoExc
           /\ pc \in {"returned", "exit"}
           /\ ErrorChannel[Len(ErrorChannel)] = error(Str(raisedIn[2]))
    /\ (OtherExceptionRaised /\ ~IsException(raisedIn[2])) =>
           /\ ret = -1
           /\ exc = raisedIn[2]
           /\ ErrorChannel = <<>>
    /\ ZeroOnlyWithoutRaise

C6_Witness ==
    /\ raisedIn = <<"instantiate", [cls |-> "RuntimeError", msg |-> "model not found"]>>
    /\ pc = "returned"
    /\ ret = 1

NoSubcommand == caller = "main" /\ ~args.hasAction

\* C7: without a subcommand main returns 1 after the hint on the error channel and both
\* usage strings on the info channel, and run is never entered: no snapshot, no
\* environment construction, no algorithm instance.
C7_MissingSubcommand ==
    NoSubcommand =>
        /\ pc = "exit"
        /\ exit = 1
        /\ log = << error("You need to select a subcommand {train, visualize}"),
                    info("\n" \o TrainUsage \o VisualizeUsage) >>
        /\ Contains(InfoChannel[1].text, TrainUsage)
        /\ Contains(InfoChannel[1].text, VisualizeUsage)
        /\ trace = <<>>
        /\ algorithms = <<>>
        /\ ret = -1
        /\ makeCalls = 0
        /\ instances = 0
        /\ trainCalls = 0
        /\ visualizeCalls = 0

C7_Witness ==
    /\ NoSubcommand
    /\ Len(subclasses) = 2
    /\ exit = 1

LastRegistered(n) ==
    subclasses[CHOOSE i \in 1..Len(subclasses) :
                   /\ subclasses[i].name = n
                   /\ \A j \in (i + 1)..Len(subclasses) : subclasses[j].name # n]

\* C8: whatever was registered (one class several times, two classes of one name), the
\* snapshot built by run has every registered name exactly once as a key and nothing
\* else, and a name registered more than once maps to the class registered last.
C8_SnapshotKeysUniqueLastWins ==
    "snapshot" \in Range(trace) =>
        /\ KeySet(algorithms) = RegisteredNames
        /\ \A n \in RegisteredNames :
               /\ Occurrences(Keys(algorithms), n) = 1
               /\ Lookup(algorithms, n) = LastRegistered(n)

C8_Witness ==
    /\ "snapshot" \in Range(trace)
    /\ subclasses = << [name |-> "DQN", impl |-> 1], [name |-> "PPO", impl |-> 1],
                       [name |-> "DQN", impl |-> 2] >>
    /\ Len(algorithms) = 2

StageOrder == <<"snapshot", "validate", "make", "instantiate", "train", "visualize">>

IsStage(x) == x \in Range(StageOrder) \cup {"list_envs"}

Stages == SelectSeq(trace, IsStage)

Rank(x) == IF x = "list_envs" THEN 4 ELSE CHOOSE i \in 1..Len(StageOrder) : StageOrder[i] = x

\* C9: the stages of one call of run happen in the order snapshot, validation,
\* environment construction, instantiation, operation, and a failed stage prevents all
\* later ones: an unknown algorithm means gym.make is never called (with both names
\* invalid only the algorithm message is emitted), a failed gym.make means no instance,
\* and a raising constructor means neither train() nor visualize().
C9_StagesInOrderFailureStops ==
    /\ \A i, j \in 1..Len(Stages) : i < j => Rank(Stages[i]) < Rank(Stages[j])
    /\ \A i \in 1..Len(Stages) :
           Rank(Stages[i]) <= 4 => \A r \in 1..(Rank(Stages[i]) - 1) : StageOrder[r] \in Range(Stages)
    /\ (trainCalls + visualizeCalls > 0) => (instances = 1 /\ "instantiate" \in Range(Stages))
    /\ UnknownAlgorithmReturned =>
           /\ makeCalls = 0 /\ instances = 0 /\ trainCalls = 0 /\ visualizeCalls = 0
           /\ Stages = <<"snapshot", "validate">>
           /\ Len(ErrorChannel) = 1 /\ StartsWith(ErrorChannel[1].text, AlgorithmHeader)
    /\ raisedIn[1] = "make" =>
           /\ instances = 0 /\ trainCalls = 0 /\ visualizeCalls = 0
           /\ Stages[Len(Stages)] \in {"make", "list_envs"}
    /\ raisedIn[1] = "instantiate" =>
           /\ instances = 0 /\ trainCalls = 0 /\ visualizeCalls = 0
           /\ Stages[Len(Stages)] = "instantiate"
    /\ raisedIn[1] = "train" => (visualizeCalls = 0 /\ Stages[Len(Stages)] = "train")

C9_Witness ==
    /\ UnknownAlgorithmReturned
    /\ args.environment = "MiniGrid-Bogus-v0"
    /\ "MiniGrid-Bogus-v0" \notin Range(catalog)
    /\ ret = 1
    /\ makeCalls = 0

\* C10: with a registered algorithm, a constructed environment, a constructor that
\* returns and an action that is neither "train" nor "visualize", run constructs the
\* environment and one instance, calls neither operation, emits no error and returns 0;
\* whatever the action, at most one of the two operations is called per call of run.
C10_OtherActionIsSilentSuccess ==
    /\ (InstantiatedAndFinished /\ action \notin {"train", "visualize"}) =>
           /\ makeCalls = 1
           /\ instances = 1
           /\ trainCalls = 0
           /\ visualizeCalls = 0
           /\ ErrorChannel = <<>>
           /\ ret = 0
    /\ trainCalls + visualizeCalls <= 1

C10_Witness ==
    /\ InstantiatedAndFinished
    /\ action = "evaluate"
    /\ instances = 1
    /\ ret = 0

====
